---- MODULE Spec2Model ----
(***************************************************************************)
(* JAlpine: the JTemplate compiler/cache of template.go, the handlers that *)
(* use it and the client side of the version protocol (helpers.js).        *)
(*                                                                         *)
(* Time is counted in ticks, TicksPerSec ticks to the second, so that the  *)
(* second-granular version string of updateVersion is a real conversion.   *)
(* A path is a sequence of components plus an extension; a payload key is  *)
(* the sequence of its "::"-separated segments; file content and compiled  *)
(* documents are sequences of tokens (text, include directive, script      *)
(* block, </head>, </body>, and the markers the compiler inserts).         *)
(***************************************************************************)
EXTENDS Integers, Sequences, FiniteSets, TLC

\* ---------------------------------------------------------------- bounds
TicksPerSec == 2
MaxTicks == 8
MaxEdits == 1
MaxClientEdits == 3
MaxClientSecs == 6
MaxConcSecs == 2
MaxKeys == 2
MaxDepth == 5
MaxLibs == 3
MaxRepairEdits == 2
MaxBatchEdits == 2
MaxCreates == 2
InitRoom == 1

\* ------------------------------------------------------ program constants
checkInterval == 2
EmptyVersion == -1
ZeroTime == 0

CheckTicks == checkInterval * TicksPerSec
StartTime == CheckTicks
EndTime == StartTime + MaxTicks

\* ------------------------------------------------------------------ paths
P(comps, ext) == [comps |-> comps, ext |-> ext]

mainFile == P(<<"index">>, "html")
fileA == P(<<"a">>, "html")
fileB == P(<<"sub", "b">>, "html")
fileC == P(<<"sub", "c">>, "html")
Paths == {mainFile, fileA, fileB, fileC}
\* the files that get removed or lose their read permission
Fragile == {fileA}

\* filepath.Dir and filepath.Base of a cleaned path
Dir(p) == SubSeq(p.comps, 1, Len(p.comps) - 1)
Base(p) == P(<<p.comps[Len(p.comps)]>>, p.ext)

\* filepath.Clean on the components: ".." removes the component before it
RECURSIVE CleanFrom(_, _)
CleanFrom(acc, rest) ==
  IF rest = <<>> THEN acc
  ELSE LET c == Head(rest) IN
       IF c = ".." /\ acc # <<>> /\ acc[Len(acc)] # ".."
       THEN CleanFrom(SubSeq(acc, 1, Len(acc) - 1), Tail(rest))
       ELSE CleanFrom(Append(acc, c), Tail(rest))

\* (the reference resolved against the directory of the root file)
JoinRootDir(currentDir, fileName) == P(CleanFrom(<<>>, fileName.comps), fileName.ext)

Join(currentDir, fileName) ==
  P(CleanFrom(<<>>, currentDir \o fileName.comps), fileName.ext)

\* a directive without extension gets ".html"
WithExt(ref) == IF ref.ext = "" THEN P(ref.comps, "html") ELSE ref

\* ----------------------------------------------------------------- tokens
Text(i) == [k |-> "text", id |-> i]
Inc(ref) == [k |-> "inc", ref |-> ref]
\* a script block: attrs is TRUE when the opening tag carries attributes
\* (other than x-data); xdata is the x-data value or ""; urls are the
\* sourceURL comments that follow the opening tag, first one first; wrap
\* are the component names of the Alpine.data wrappers around the body,
\* outermost first
Script(attrs, xdata, body) ==
  [k |-> "script", attrs |-> attrs, xdata |-> xdata, body |-> body,
   urls |-> <<>>, wrap |-> <<>>]
HeadClose == [k |-> "headclose"]
BodyClose == [k |-> "bodyclose"]
Begin(fileName) == [k |-> "begin", name |-> fileName]
End(fileName) == [k |-> "end", name |-> fileName]

\* ------------------------------------------------- contents a file can get
refA == P(<<"a">>, "")
refB == P(<<"sub", "b">>, "html")
refC == P(<<"c">>, "")
refUpA == P(<<"..", "a">>, "html")
refGhost == P(<<"ghost">>, "")

Contents(p) ==
  CASE p = mainFile ->
         { <<HeadClose, Inc(refA), Inc(refB), Script(FALSE, "main", 1), BodyClose>>,
           <<HeadClose, Inc(refB), BodyClose>>,
           <<Text(1), Inc(refA), Inc(refGhost)>> }
    [] p = fileA -> { <<Script(FALSE, "", 2)>> }
    [] p = fileB -> { <<Inc(refC), Script(TRUE, "todoApp", 3)>>, <<Inc(refUpA)>> }
    [] OTHER -> { <<Script(TRUE, "", 4)>> }

InitContent(p) ==
  CASE p = mainFile ->
         <<HeadClose, Inc(refA), Inc(refB), Script(FALSE, "main", 1), BodyClose>>
    [] p = fileA -> <<Script(FALSE, "", 2)>>
    [] p = fileB -> <<Inc(refC), Script(TRUE, "todoApp", 3)>>
    [] OTHER -> <<Script(TRUE, "", 4)>>

\* ------------------------------------------------------------ file system
\* os.Stat fails exactly when the path does not exist; os.ReadFile fails
\* also when the file exists and is not readable
StatOk(fs, p) == p \in DOMAIN fs /\ fs[p].exists
ReadOk(fs, p) == StatOk(fs, p) /\ fs[p].readable

\* ------------------------------------------------------------- compiler
\* processXDataScripts: every script block whose opening tag carries
\* x-data="NAME" becomes a plain <script> whose body is wrapped in the
\* alpine:init / Alpine.data('NAME', ...) form
\* (the same wrapping with the opening tag left as it was)
RewriteKeepTag(tok) ==
  IF tok.k = "script" /\ tok.xdata # ""
  THEN [tok EXCEPT !.wrap = <<tok.xdata>> \o @]
  ELSE tok

RewriteXData(tok) ==
  IF tok.k = "script" /\ tok.xdata # ""
  THEN [tok EXCEPT !.attrs = FALSE, !.xdata = "", !.wrap = <<tok.xdata>> \o @]
  ELSE tok

processXDataScripts(content) ==
  [i \in 1..Len(content) |-> RewriteXData(content[i])]

\* addSourceURL: after every literal "<script>" (an opening tag with no
\* attribute at all) insert the sourceURL comment naming filename
Annotate(tok, filename) ==
  IF tok.k = "script" /\ ~tok.attrs /\ tok.xdata = ""
  THEN [tok EXCEPT !.urls = <<filename>> \o tok.urls]
  ELSE tok

addSourceURL(content, filename) ==
  [i \in 1..Len(content) |-> Annotate(content[i], filename)]

\* The result of loadTemplate / processIncludes: err is the error chain
\* (<<>> for nil), deps the dependency set after the call, out the text.
Loaded(deps, out) == [failed |-> FALSE, chain |-> <<>>, deps |-> deps, out |-> out]
Failed(deps, chain) == [failed |-> TRUE, chain |-> chain, deps |-> deps, out |-> <<>>]

RECURSIVE loadTemplate(_, _, _)
RECURSIVE processIncludesFrom(_, _, _, _, _, _)

\* the loop of processIncludes from directive position i on, acc being the
\* builder
processIncludesFrom(fs, content, currentDir, i, deps, acc) ==
  IF i > Len(content) THEN Loaded(deps, acc)
  ELSE IF content[i].k # "inc"
  THEN processIncludesFrom(fs, content, currentDir, i + 1, deps,
                           Append(acc, content[i]))
  ELSE LET fileName == WithExt(content[i].ref)
           includePath == Join(currentDir, fileName)
           r == loadTemplate(fs, includePath, deps)
       IN IF r.failed
          THEN Failed(r.deps, <<fileName>> \o r.chain)
          ELSE processIncludesFrom(fs, content, currentDir, i + 1, r.deps,
                 acc \o <<Begin(fileName)>> \o r.out \o <<End(fileName)>>)

processIncludes(fs, content, currentDir, deps) ==
  processIncludesFrom(fs, content, currentDir, 1, deps, <<>>)

loadTemplate(fs, filePath, deps) ==
  LET deps1 == deps \cup {filePath} IN
  IF ~ReadOk(fs, filePath) THEN Failed(deps1, <<>>)
  ELSE LET r == processIncludes(fs, fs[filePath].content, Dir(filePath), deps1)
       IN IF r.failed THEN r
          ELSE Loaded(r.deps,
                 addSourceURL(processXDataScripts(r.out), Base(filePath)))

\* ------------------------------------------------------ library injection
Lib(name, len, alpha, ext) == [name |-> name, len |-> len, alpha |-> alpha, ext |-> ext]

\* the map main() passes: alpinejs, tailwindcss, alpinejs-autoanimate
libsMap ==
  { Lib("alpinejs", 8, 1, "js"), Lib("tailwindcss", 11, 3, "js"),
    Lib("alpinejs-autoanimate", 20, 2, "js") }

\* the orders in which `for k := range libsMap` can collect the keys
RangeOrders(libs) ==
  { o \in [1..Cardinality(libs) -> libs] :
      \A i, j \in 1..Cardinality(libs) : i # j => o[i] # o[j] }

\* (a comparison that looks at the length only)
KeyLessByLength(a, b) == a.len > b.len

\* the sort.Slice comparison: longer name first, then alphabetical
KeyLess(a, b) == IF a.len = b.len THEN a.alpha < b.alpha ELSE a.len > b.len

\* sort.Slice on a short slice is an insertion sort: each key moves left
\* past the keys it is less than
RECURSIVE InsertKey(_, _)
InsertKey(sorted, x) ==
  IF sorted # <<>> /\ KeyLess(x, sorted[Len(sorted)])
  THEN Append(InsertKey(SubSeq(sorted, 1, Len(sorted) - 1), x), sorted[Len(sorted)])
  ELSE Append(sorted, x)

RECURSIVE SortSlice(_)
SortSlice(keys) ==
  IF keys = <<>> THEN <<>>
  ELSE InsertKey(SortSlice(SubSeq(keys, 1, Len(keys) - 1)), keys[Len(keys)])

LibTag(lib) ==
  IF lib.ext = "css" THEN [tag |-> "link", name |-> lib.name, defer |-> FALSE]
  ELSE [tag |-> "script", name |-> lib.name, defer |-> lib.name # "tailwindcss"]

IndexOf(html, kind) ==
  IF \E i \in 1..Len(html) : html[i].k = kind
  THEN CHOOSE i \in 1..Len(html) :
         html[i].k = kind /\ \A j \in 1..(i - 1) : html[j].k # kind
  ELSE 0

\* html with the tokens ins put right before position i
InsertBefore(html, i, ins) ==
  SubSeq(html, 1, i - 1) \o ins \o SubSeq(html, i, Len(html))

\* injectExternalLibs with the keys collected in the order keys: sort,
\* one tag per .css or .js asset, splice
injectLibsInOrder(html, keys) ==
  LET sorted == SelectSeq(SortSlice(keys), LAMBDA l : l.ext \in {"css", "js"})
      injection == [k |-> "libs", tags |-> [i \in 1..Len(sorted) |-> LibTag(sorted[i])]]
  IN IF IndexOf(html, "headclose") # 0
     THEN InsertBefore(html, IndexOf(html, "headclose"), <<injection>>)
     ELSE IF IndexOf(html, "bodyclose") # 0
     THEN InsertBefore(html, IndexOf(html, "bodyclose"), <<injection>>)
     ELSE Append(html, injection)

\* injectExternalLibs, the range loop taking the keys in one of its orders
injectExternalLibs(html, libs) ==
  injectLibsInOrder(html, CHOOSE o \in RangeOrders(libs) : TRUE)

\* ------------------------------------------------------------- versioning
\* lastModTime.Format(time.DateTime): the time cut to whole seconds
Format(t) == t \div TicksPerSec

Max(S) == CHOOSE x \in S : \A y \in S : y <= x

\* updateVersion dereferences the nil FileInfo of a failed os.Stat
StatPanics(fs, deps) == \E p \in deps : ~StatOk(fs, p)

\* (the comparison reversed: the oldest modification time)
oldestModTime(fs, deps) ==
  IF deps = {} THEN ZeroTime
  ELSE CHOOSE t \in {fs[p].mtime : p \in deps} : \A p \in deps : t <= fs[p].mtime

\* the newest modification time among deps (the zero time for none)
lastModTime(fs, deps) == Max({ZeroTime} \cup {fs[p].mtime : p \in deps})

newVersion(fs, deps) == Format(lastModTime(fs, deps))

\* ---------------------------------------------------------------- state
VARIABLES
  compiled,   \* JTemplate.compiled
  version,    \* JTemplate.version
  deps,       \* JTemplate.deps
  lastCheck,  \* JTemplate.lastCheck
  phase,      \* "new": the struct literal of NewJTemplate is built;
              \* "ready": NewJTemplate has returned; "dead": it panicked
  fs,         \* the file system: path -> [exists, readable, mtime, content]
  now,        \* the clock, in ticks
  edits,      \* file system changes made so far
  scopes,     \* per client: whether its page is loaded, and the Alpine
              \* scopes of the page, component -> field -> value
  last,       \* what the last call did and wrote
  good,       \* version and body as they stood after the last successful
              \* compilation, and whether a recompilation has failed since
  req,        \* the requests served concurrently: where each one is in its
              \* handler, its locals and what it wrote
  load,       \* a loadTemplate call in progress: the stack of its active
              \* invocations and what the outermost one returned
  db,         \* the todo store of main.go: ID -> Todo, one entry per
              \* "todo:<ID>" key of the database
  uuids       \* how many IDs uuid.New() has handed out

tvars == <<compiled, version, deps, lastCheck>>
vars == <<compiled, version, deps, lastCheck, phase, fs, now, edits, scopes,
          last, good, req, load, db, uuids>>

Clients == {"c1"}

\* the JTemplate as one value
T == [compiled |-> compiled, version |-> version, deps |-> deps,
      lastCheck |-> lastCheck]

SetT(t) ==
  /\ compiled' = t.compiled
  /\ version' = t.version
  /\ deps' = t.deps
  /\ lastCheck' = t.lastCheck

\* ---------------------------------------------------------------- Update
\* the throttle test of Update
NeverThrottled(t, clock) == FALSE
Throttled(t, clock) == clock - t.lastCheck < CheckTicks

\* t.deps = make(map[string]struct{}) before the reload
KeepDeps(t) == t.deps
ResetDeps(t) == {}

\* the outcome of a call: the template after it, how it ended, and the
\* paths it passed to os.Stat and to os.ReadFile
Outcome(t, res, stats, reads) ==
  [t |-> t, res |-> res, stats |-> stats, reads |-> reads]

\* updateVersion on t: "panic" (nothing assigned) or the version it stores
\* and the needUpdate it returns
updateVersion(t, files) ==
  IF StatPanics(files, t.deps)
  THEN [panic |-> TRUE, t |-> t, needUpdate |-> FALSE]
  ELSE [panic |-> FALSE,
        t |-> [t EXCEPT !.version = newVersion(files, t.deps)],
        needUpdate |-> t.version # newVersion(files, t.deps)]

\* lines 63-71 of Update: reset deps, reload, inject, store
Recompile(t, files) ==
  LET r == loadTemplate(files, mainFile, ResetDeps(t)) IN
  IF r.failed
  THEN Outcome([t EXCEPT !.deps = r.deps], "failed", t.deps, r.deps)
  ELSE Outcome([t EXCEPT !.deps = r.deps,
                         !.compiled = injectExternalLibs(r.out, libsMap)],
               "compiled", t.deps, r.deps)

Update(t, files, clock) ==
  IF Throttled(t, clock) THEN Outcome(t, "throttled", {}, {})
  ELSE LET t1 == [t EXCEPT !.lastCheck = clock]
           u == updateVersion(t1, files)
       IN IF u.panic THEN Outcome(t1, "panic", t.deps, {})
          ELSE IF ~u.needUpdate THEN Outcome(u.t, "fresh", t.deps, {})
          ELSE Recompile(u.t, files)

\* -------------------------------------------------------------- payloads
\* a key is the sequence of its "::"-separated segments: <<"main", "error">>
\* is "main::error", <<"x">> is the bare key "x"
Val(x) == [val |-> x]
Ver(v) == [ver |-> v]
EmptyMap == [x \in {} |-> x]
Put(m, k, v) == (k :> v) @@ m

availKey == <<"main", "availVersion">>
errorKey == <<"main", "error">>

\* the payload of handleIndex, and one that supplies the version keys itself
ExecData ==
  { (<<"todoApp", "todos">> :> Val("todos")) @@ (<<"todoApp", "filter">> :> Val("all")),
    (<<"currentVersion">> :> Val("mine")) @@ (availKey :> Val("mine")) }

\* the payload of handleIndex alone
IndexData ==
  { (<<"todoApp", "todos">> :> Val("todos")) @@ (<<"todoApp", "filter">> :> Val("all")) }

\* the payloads of handleGetTodos and handleCreateTodo, and one that sets
\* main::availVersion itself
JsonData ==
  { (<<"todoApp", "todos">> :> Val("todos")) @@ (errorKey :> Val("")),
    (availKey :> Val("mine")) }

\* a handler payload that sets main::availVersion itself
OwnStampData == { (<<"todoApp", "todos">> :> Val("todos")) @@ (availKey :> Val("mine")) }

ErrMsgs == {"Failed to fetch todos"}

\* every key in use, in the byte order encoding/json writes map keys in
\* (and Object.entries then visits them in)
SortedKeys ==
  << <<"currentVersion">>, <<"main", "availVersion">>, <<"main", "error">>,
     <<"main", "x">>, <<"todoApp", "filter">>, <<"todoApp", "todos">>,
     <<"todoApp", "x">>, <<"todoApp", "x", "y">>, <<"x">> >>

WireOrder(resp) == SelectSeq(SortedKeys, LAMBDA k : k \in DOMAIN resp)

\* the orders in which `for k, v := range data` can visit the keys
Orders(data) ==
  LET n == Cardinality(DOMAIN data) IN
  { o \in [1..n -> DOMAIN data] : \A i, j \in 1..n : i # j => o[i] # o[j] }

\* the loop of Execute that splits data by component (strings.SplitN(k,
\* "::", 2): the component is the first segment, the field the rest)
RECURSIVE RegroupFrom(_, _, _)
RegroupFrom(data, order, acc) ==
  IF order = <<>> THEN acc
  ELSE LET k == Head(order)
           comp == IF Len(k) > 1 THEN k[1] ELSE "main"
           key == IF Len(k) > 1 THEN Tail(k) ELSE k
           old == IF comp \in DOMAIN acc THEN acc[comp] ELSE EmptyMap
       IN RegroupFrom(data, Tail(order), Put(acc, comp, Put(old, key, data[k])))

Regroup(data, order) == RegroupFrom(data, order, "main" :> EmptyMap)

\* componentData with the two version fields, v1 being the value of
\* t.version read on line 219 and v2 the value read on line 220
Stamp(cd, v1, v2) ==
  Put(cd, "main",
      Put(Put(cd["main"], <<"currentVersion">>, Ver(v1)), <<"availVersion">>, Ver(v2)))

\* the page: the compiled body with the integration script (which ends in
\* </body>) in place of the first </body>, or appended
Integration(cd) == [k |-> "integration", data |-> cd]

Render(body, cd) ==
  LET i == IndexOf(body, "bodyclose") IN
  IF i # 0
  THEN SubSeq(body, 1, i - 1) \o <<Integration(cd), BodyClose>>
         \o SubSeq(body, i + 1, Len(body))
  ELSE body \o <<Integration(cd), BodyClose>>

\* the JSON handlers' bodies
StampCurrent(data, v) == Put(data, <<"main", "currentVersion">>, Ver(v))
StampJSON(data, v) == Put(data, availKey, Ver(v))
ErrorBody(errMsg, v) == (errorKey :> Val(errMsg)) @@ (availKey :> Ver(v))

\* ---------------------------------------------------------------- client
\* the elements of index.html that carry x-data, and the one whose form
\* issues the requests
PageComps == {"main", "todoApp"}
RequestEl == "todoApp"

\* helpers.js, alpine:initialized: merge window._componentData
LoadPage(cd) ==
  [comp \in PageComps |-> IF comp \in DOMAIN cd THEN cd[comp] ELSE EmptyMap]

\* helpers.js, makeRequest on an ok response: bare keys go to the scope of
\* the requesting element, "a::b" keys (key.split('::'), first two
\* segments) to every element whose x-data is a
ApplyKey(sc, k, v) ==
  IF Len(k) = 1 THEN [sc EXCEPT ![RequestEl] = Put(@, k, v)]
  ELSE IF k[1] \in PageComps THEN [sc EXCEPT ![k[1]] = Put(@, <<k[2]>>, v)]
  ELSE sc

RECURSIVE ApplyFrom(_, _, _)
ApplyFrom(sc, resp, order) ==
  IF order = <<>> THEN sc
  ELSE ApplyFrom(ApplyKey(sc, Head(order), resp[Head(order)]), resp, Tail(order))

\* the bare keys are applied in a first pass, the namespaced in a second
makeRequest(sc, resp, order) ==
  LET bare == SelectSeq(order, LAMBDA k : Len(k) = 1)
      spaced == SelectSeq(order, LAMBDA k : Len(k) > 1)
  IN ApplyFrom(ApplyFrom(sc, resp, bare), resp, spaced)

\* makeRequest when fetch fails: the catch branch sets error on the scope
FetchFailed(sc) == [sc EXCEPT ![RequestEl] = Put(@, <<"error">>, Val("fetch failed"))]

\* a client: whether its page is loaded, the scopes of the page, and
\* whether a successful recompilation has changed the server's version
\* since the page was rendered
NoPage == [loaded |-> FALSE, sc |-> [comp \in PageComps |-> EmptyMap], stale |-> FALSE]
PageOf(cd) == [loaded |-> TRUE, sc |-> LoadPage(cd), stale |-> FALSE]
CurOf(c) == scopes[c].sc["main"][<<"currentVersion">>]
AvailOf(c) == scopes[c].sc["main"][<<"availVersion">>]

\* ------------------------------------------------------------ bookkeeping
\* a call: which, for whom, how its Update ended, the paths it stat'ed and
\* read, the payload it was given and what it wrote
Call(op, c, o, data, wrote, out, resp) ==
  [op |-> op, c |-> c, res |-> o.res, stats |-> o.stats,
   reads |-> o.reads, data |-> data, wrote |-> wrote, out |-> out, resp |-> resp]

NoCall ==
  [op |-> "none", c |-> "", res |-> "", stats |-> {}, reads |-> {},
   data |-> EmptyMap, wrote |-> FALSE, out |-> <<>>, resp |-> EmptyMap]

\* good after a call that ended as o
GoodAfter(o) ==
  IF o.res = "compiled"
  THEN [any |-> TRUE, version |-> o.t.version, compiled |-> o.t.compiled,
        failedSince |-> FALSE]
  ELSE IF o.res = "failed" THEN [good EXCEPT !.failedSince = TRUE]
  ELSE good

\* main.go, line 35
MaxTodos == 150

\* an empty database, and the Todo of lines 140-145 (its text and its
\* creation time play no part in what the handlers do)
NoTodos == [id \in {} |-> id]
Todo(completed) == [Completed |-> completed]

\* a request that is not being served
Requests == {"r1", "r2"}
Idle ==
  [pc |-> "idle", op |-> "", data |-> EmptyMap, nv |-> EmptyVersion,
   loaded |-> Loaded({}, <<>>), v1 |-> EmptyVersion, v2 |-> EmptyVersion,
   wrote |-> FALSE, out |-> <<>>, stamp |-> EmptyVersion, resp |-> EmptyMap,
   todos |-> NoTodos, id |-> 0]

\* no loadTemplate call in progress
NoLoad == [stack |-> <<>>, res |-> "none", out |-> <<>>]

\* ------------------------------------------------------------------ Init
Init ==
  /\ compiled = <<>>
  /\ version = EmptyVersion
  /\ deps = {}
  /\ lastCheck = ZeroTime
  /\ phase = "new"
  /\ fs = [p \in Paths |-> [exists |-> TRUE, readable |-> TRUE,
                            mtime |-> StartTime, content |-> InitContent(p)]]
  /\ now = StartTime
  /\ edits = 0
  /\ scopes = [c \in Clients |-> NoPage]
  /\ last = NoCall
  /\ good = [any |-> FALSE, version |-> EmptyVersion, compiled |-> <<>>,
             failedSince |-> FALSE]
  /\ req = [r \in Requests |-> Idle]
  /\ load = NoLoad
  /\ db = NoTodos
  /\ uuids = 0

\* ----------------------------------------------------------- environment
Tick ==
  /\ now < EndTime
  /\ now' = now + 1
  /\ UNCHANGED <<compiled, version, deps, lastCheck, phase, fs, edits, scopes,
                 last, good, req, load, db, uuids>>

\* an editor saves p (creating it when it is gone): new content, mtime now
WriteFile(p, c) ==
  /\ edits < MaxEdits
  /\ edits' = edits + 1
  /\ fs' = [fs EXCEPT ![p] = [exists |-> TRUE,
                              readable |-> IF @.exists THEN @.readable ELSE TRUE,
                              mtime |-> now, content |-> c]]
  /\ UNCHANGED <<compiled, version, deps, lastCheck, phase, now, scopes, last, good, req, load,
                 db, uuids>>

RemoveFile(p) ==
  /\ edits < MaxEdits
  /\ fs[p].exists
  /\ edits' = edits + 1
  /\ fs' = [fs EXCEPT ![p].exists = FALSE]
  /\ UNCHANGED <<compiled, version, deps, lastCheck, phase, now, scopes, last, good, req, load,
                 db, uuids>>

\* chmod: the read permission changes, the modification time does not
Chmod(p) ==
  /\ edits < MaxEdits
  /\ fs[p].exists
  /\ edits' = edits + 1
  /\ fs' = [fs EXCEPT ![p].readable = ~@]
  /\ UNCHANGED <<compiled, version, deps, lastCheck, phase, now, scopes, last, good, req, load,
                 db, uuids>>

\* ------------------------------------------------------------- operations
\* NewJTemplate: Update on the fresh struct, then updateVersion
NewJTemplate ==
  /\ phase = "new"
  /\ \E o \in {Update(T, fs, now)} : \E u \in {updateVersion(o.t, fs)} :
        /\ SetT(u.t)
        /\ phase' = IF u.panic THEN "dead" ELSE "ready"
        /\ last' = Call("NewJTemplate", "", [o EXCEPT !.res = IF u.panic THEN "panic" ELSE @],
                        EmptyMap, FALSE, <<>>, EmptyMap)
        /\ good' = IF u.panic THEN good ELSE GoodAfter([o EXCEPT !.t = u.t])
  /\ UNCHANGED <<fs, now, edits, scopes, req, load, db, uuids>>

\* a direct call of Update
DoUpdate ==
  /\ phase = "ready"
  /\ \E o \in {Update(T, fs, now)} :
        /\ SetT(o.t)
        /\ last' = Call("Update", "", o, EmptyMap, FALSE, <<>>, EmptyMap)
        /\ good' = GoodAfter(o)
  /\ UNCHANGED <<phase, fs, now, edits, scopes, req, load, db, uuids>>

\* Execute, asked for by c; a panic in Update ends the request with nothing
\* written
Execute(c, data, order) ==
  /\ phase = "ready"
  /\ \E o \in {Update(T, fs, now)} :
     \E cd \in {Stamp(Regroup(data, order), o.t.version, o.t.version)} :
        /\ SetT(o.t)
        /\ good' = GoodAfter(o)
        /\ last' = IF o.res = "panic"
                   THEN Call("Execute", c, o, data, FALSE, <<>>, EmptyMap)
                   ELSE Call("Execute", c, o, data, TRUE,
                             Render(o.t.compiled, cd), EmptyMap)
  /\ UNCHANGED <<phase, fs, now, edits, req, load, db, uuids>>

JSON(c, data) ==
  /\ phase = "ready"
  /\ \E o \in {Update(T, fs, now)} :
        /\ SetT(o.t)
        /\ good' = GoodAfter(o)
        /\ last' = IF o.res = "panic"
                   THEN Call("JSON", c, o, data, FALSE, <<>>, EmptyMap)
                   ELSE Call("JSON", c, o, data, TRUE, <<>>,
                             StampJSON(data, o.t.version))
  /\ UNCHANGED <<phase, fs, now, edits, req, load, db, uuids>>

Error(c, errMsg) ==
  /\ phase = "ready"
  /\ \E o \in {Update(T, fs, now)} :
        /\ SetT(o.t)
        /\ good' = GoodAfter(o)
        /\ last' = IF o.res = "panic"
                   THEN Call("Error", c, o, errorKey :> Val(errMsg), FALSE, <<>>, EmptyMap)
                   ELSE Call("Error", c, o, errorKey :> Val(errMsg), TRUE, <<>>,
                             ErrorBody(errMsg, o.t.version))
  /\ UNCHANGED <<phase, fs, now, edits, req, load, db, uuids>>

\* The server alone, one call at a time.
Next ==
  \/ Tick
  \/ \E p \in Paths : \E c \in Contents(p) : WriteFile(p, c)
  \/ \E p \in Fragile : RemoveFile(p)
  \/ \E p \in Fragile : Chmod(p)
  \/ NewJTemplate
  \/ DoUpdate
  \/ \E data \in IndexData : \E order \in Orders(data) :
       Execute("", data, order) /\ UNCHANGED scopes
  \/ \E data \in OwnStampData : JSON("", data) /\ UNCHANGED scopes
  \/ \E errMsg \in ErrMsgs : Error("", errMsg) /\ UNCHANGED scopes

Spec == Init /\ [][Next]_vars

\* ======================================================================
\* Claims about the server, one call at a time (Spec)
\* ======================================================================

\* a step of Spec that is a call into the JTemplate
ServerStep == now' = now /\ edits' = edits

\* the body Update would store for the files as they are
CompiledNow(files) ==
  injectExternalLibs(loadTemplate(files, mainFile, {}).out, libsMap)

\* C1: when a recompilation attempt inside Update fails, version and
\* compiled body are, after Update returns, what they were after the last
\* successful compilation.
C1_FailedUpdateKeepsVersionAndBody ==
  (good.any /\ last.res = "failed")
    => (version = good.version /\ compiled = good.compiled)

\* C2: a freshness check (from Update or from NewJTemplate) over a
\* dependency set with a path whose stat fails does not crash, and stores
\* the version of the newest file among the paths that can be stat'ed.
C2_StatFailureIsZeroTime ==
  [][(/\ ServerStep
      /\ last'.res # "throttled"
      /\ \E p \in last'.stats : ~StatOk(fs, p))
     => (/\ last'.res # "panic"
         /\ phase' # "dead"
         /\ version' = Format(Max({ZeroTime} \cup
                         {fs[p].mtime : p \in {q \in last'.stats : StatOk(fs, q)}})))]_vars

\* the payload Execute embedded in a page
DataOf(out) == out[IndexOf(out, "integration")].data

\* C3: after a failed recompilation and until one succeeds, every Execute
\* completes and writes the document of the last successful compilation
\* with the data block injected.
C3_ExecuteServesLastGoodAfterFailure ==
  [][(/\ ServerStep
      /\ good.any /\ good.failedSince /\ good'.failedSince
      /\ last'.op = "Execute")
     => (/\ last'.wrote
         /\ IndexOf(last'.out, "integration") # 0
         /\ last'.out = Render(good.compiled, DataOf(last'.out)))]_vars

\* C5: when a file of the dependency set was modified after the last
\* check, the first Update at least checkInterval after that check changes
\* the version and stores the body compiled from the current files.
C5_ModifiedDependencyIsPickedUp ==
  [][(/\ ServerStep
      /\ phase = "ready"
      /\ now - lastCheck >= CheckTicks
      /\ \A p \in deps : StatOk(fs, p)
      /\ \E p \in deps : fs[p].mtime > lastCheck
      /\ ~loadTemplate(fs, mainFile, {}).failed)
     => (version' # version /\ compiled' = CompiledNow(fs))]_vars

\* C6: a call made less than checkInterval after the last performed check
\* stats and reads no file and leaves version, body, dependency set and
\* lastCheck as they are.
C6_ThrottledCallIsNoOp ==
  [][(/\ ServerStep
      /\ phase = "ready"
      /\ now - lastCheck < CheckTicks)
     => (/\ UNCHANGED <<compiled, version, deps, lastCheck>>
         /\ last'.res = "throttled"
         /\ last'.stats = {} /\ last'.reads = {})]_vars

\* a throttled call inside the window of a check, a dependency having
\* been modified since that check (a call made in this state is throttled
\* and leaves this very state)
C6_Witness ==
  /\ last.res = "throttled"
  /\ last.op \in {"Execute", "JSON", "Error"}
  /\ now - lastCheck < CheckTicks
  /\ \E p \in deps : fs[p].mtime > lastCheck /\ Format(fs[p].mtime) # version

\* C8: a body written by JSON or Error has main::availVersion, set to the
\* template version as the call's freshness check left it, whatever the
\* handler put there; the other keys are the handler's, and no
\* currentVersion is added.
C8_ResponsesCarryAvailVersion ==
  (last.op \in {"JSON", "Error"} /\ last.wrote)
    => (/\ availKey \in DOMAIN last.resp
        /\ last.resp[availKey] = Ver(version)
        /\ DOMAIN last.resp = DOMAIN last.data \cup {availKey}
        /\ \A k \in DOMAIN last.data \ {availKey} : last.resp[k] = last.data[k])

\* a JSON response whose freshness check recompiled, for a handler that
\* had set main::availVersion itself
C8_Witness ==
  /\ last.op = "JSON" /\ last.wrote /\ last.res = "compiled"
  /\ availKey \in DOMAIN last.data
  /\ last.data[availKey] # last.resp[availKey]
  /\ last.resp[availKey] = Ver(version)
  /\ version # Format(StartTime)

\* the path a directive of file p names: relative to p's directory, with
\* .html when the directive has no extension
Target(p, ref) ==
  P(CleanFrom(<<>>, SubSeq(p.comps, 1, Len(p.comps) - 1) \o ref.comps),
    IF ref.ext = "" THEN "html" ELSE ref.ext)

Includes(files, p) ==
  IF ReadOk(files, p)
  THEN {Target(p, files[p].content[i].ref) :
          i \in {j \in 1..Len(files[p].content) : files[p].content[j].k = "inc"}}
  ELSE {}

RECURSIVE Closure(_, _)
Closure(files, S) ==
  LET N == S \cup UNION {Includes(files, p) : p \in S}
  IN IF N = S THEN S ELSE Closure(files, N)

\* C10: after a successful compilation the dependency set is the root
\* plus every file included directly or transitively, no more, no less,
\* and these are the files that were read.
C10_DepsAreTheIncludeClosure ==
  [][(ServerStep /\ last'.res = "compiled")
     => (deps' = Closure(fs, {mainFile}) /\ deps' = last'.reads)]_vars

\* a recompilation after sub/b.html was changed to include ../a instead of
\* c: c.html, of the compilation before, is gone from the set
C10_Witness ==
  /\ last.res = "compiled" /\ last.op # "NewJTemplate"
  /\ deps = {mainFile, fileA, fileB}
  /\ deps = Closure(fs, {mainFile})

\* ======================================================================
\* The version protocol between the server and the pages (SpecClient):
\* clients load the page and issue API requests; the clock moves by whole
\* seconds; sub/b.html is saved again and a.html loses or regains its read
\* permission.
\* ======================================================================
ClientTick ==
  /\ now + TicksPerSec <= StartTime + MaxClientSecs * TicksPerSec
  /\ now' = now + TicksPerSec
  /\ UNCHANGED <<compiled, version, deps, lastCheck, phase, fs, edits, scopes,
                 last, good, req, load, db, uuids>>

ClientTouch(p) ==
  /\ edits < MaxClientEdits
  /\ edits' = edits + 1
  /\ fs' = [fs EXCEPT ![p].mtime = now]
  /\ UNCHANGED <<compiled, version, deps, lastCheck, phase, now, scopes, last, good, req, load,
                 db, uuids>>

ClientChmod(p) ==
  /\ edits < MaxClientEdits
  /\ edits' = edits + 1
  /\ fs' = [fs EXCEPT ![p].readable = ~@]
  /\ UNCHANGED <<compiled, version, deps, lastCheck, phase, now, scopes, last, good, req, load,
                 db, uuids>>

\* the pages other than c's learn nothing from c's exchange, but a
\* successful recompilation that changed the version makes them stale
Others(c) ==
  [d \in Clients |->
     IF last'.res = "compiled" /\ version' # version /\ scopes[d].loaded
     THEN [scopes[d] EXCEPT !.stale = TRUE]
     ELSE scopes[d]]

\* c opens or reloads the page
ClientLoad(c, data, order) ==
  /\ Execute(c, data, order)
  /\ scopes' = [Others(c) EXCEPT ![c] =
                  IF last'.wrote THEN PageOf(DataOf(last'.out)) ELSE NoPage]

\* c's page issues an API request that the handler answers with JSON
ClientRequest(c, data) ==
  /\ scopes[c].loaded
  /\ JSON(c, data)
  /\ scopes' = [Others(c) EXCEPT ![c].sc =
                  IF last'.wrote
                  THEN makeRequest(Others(c)[c].sc, last'.resp, WireOrder(last'.resp))
                  ELSE FetchFailed(Others(c)[c].sc)]

\* c's page issues an API request that the handler answers with Error
ClientRequestError(c, errMsg) ==
  /\ scopes[c].loaded
  /\ Error(c, errMsg)
  /\ scopes' = [Others(c) EXCEPT ![c].sc =
                  IF last'.wrote
                  THEN makeRequest(Others(c)[c].sc, last'.resp, WireOrder(last'.resp))
                  ELSE FetchFailed(Others(c)[c].sc)]

NextClient ==
  \/ ClientTick
  \/ ClientTouch(fileB)
  \/ ClientChmod(fileA)
  \/ NewJTemplate
  \/ \E c \in Clients : \E data \in IndexData : \E order \in Orders(data) :
       ClientLoad(c, data, order)
  \/ \E c \in Clients : \E data \in JsonData : ClientRequest(c, data)
  \/ \E c \in Clients : \E errMsg \in ErrMsgs : ClientRequestError(c, errMsg)

SpecClient == Init /\ [][NextClient]_vars

\* the update banner of index.html: x-show="availVersion !== currentVersion"
Banner(sc) == sc["main"][<<"availVersion">>] # sc["main"][<<"currentVersion">>]

\* a step in which c receives a response to an API request
Answered(c) ==
  /\ now' = now /\ edits' = edits
  /\ last'.op \in {"JSON", "Error"} /\ last'.c = c /\ last'.wrote

\* a step in which c loads the page
Reloaded(c) ==
  /\ now' = now /\ edits' = edits
  /\ last'.op = "Execute" /\ last'.c = c

\* C9: once a recompilation has changed the server's version, a page
\* rendered before the change shows the banner after its next successful
\* API response and keeps showing it until it is reloaded; a page rendered
\* after the change does not show it.
C9_BannerShowsUntilReload ==
  [][\A c \in Clients :
       /\ (Answered(c) /\ scopes'[c].stale) => Banner(scopes'[c].sc)
       /\ (scopes[c].loaded /\ scopes[c].stale /\ Banner(scopes[c].sc) /\ ~Reloaded(c))
            => Banner(scopes'[c].sc)
       /\ (Reloaded(c) /\ last'.wrote) => ~Banner(scopes'[c].sc)]_vars

\* ======================================================================
\* Requests served concurrently (SpecConc): net/http runs every handler on
\* a goroutine of its own and JTemplate takes no lock, so the statements of
\* Update and of the handlers interleave.  The constructor runs alone,
\* before the server listens.  The clock moves by whole seconds and the
\* root file is saved with content that still compiles.
\* ======================================================================
ConcTick ==
  /\ now + TicksPerSec <= StartTime + MaxConcSecs * TicksPerSec
  /\ now' = now + TicksPerSec
  /\ UNCHANGED <<compiled, version, deps, lastCheck, phase, fs, edits, scopes,
                 last, good, req, load, db, uuids>>

\* a save after which the template still compiles
ConcSave(p, c) ==
  /\ ~loadTemplate([fs EXCEPT ![p].content = c], mainFile, {}).failed
  /\ WriteFile(p, c)

\* where a handler continues when Update has returned
AfterUpdate(op) == IF op = "Execute" THEN "current" ELSE "stamp"

\* a handler is entered
ConcBegin(r, op) ==
  /\ phase = "ready"
  /\ req[r].pc = "idle"
  /\ req' = [req EXCEPT ![r] = [Idle EXCEPT !.pc = "throttle", !.op = op]]
  /\ UNCHANGED <<compiled, version, deps, lastCheck, phase, fs, now, edits,
                 scopes, last, good, load, db, uuids>>

\* Update, line 53: the throttle test
ConcThrottle(r) ==
  /\ req[r].pc = "throttle"
  /\ req' = [req EXCEPT ![r].pc =
               IF Throttled(T, now) THEN AfterUpdate(req[r].op) ELSE "mark"]
  /\ UNCHANGED <<compiled, version, deps, lastCheck, phase, fs, now, edits,
                 scopes, last, good, load, db, uuids>>

\* Update, line 56: t.lastCheck = time.Now()
ConcMark(r) ==
  /\ req[r].pc = "mark"
  /\ lastCheck' = now
  /\ req' = [req EXCEPT ![r].pc = "stat"]
  /\ UNCHANGED <<compiled, version, deps, phase, fs, now, edits, scopes, last, good, load,
                 db, uuids>>

\* updateVersion, lines 76-85: the loop over t.deps; a panic ends the
\* request with nothing written
ConcStat(r) ==
  /\ req[r].pc = "stat"
  /\ req' = [req EXCEPT ![r] =
               IF StatPanics(fs, deps) THEN Idle
               ELSE [@ EXCEPT !.pc = "assign", !.nv = newVersion(fs, deps)]]
  /\ UNCHANGED <<compiled, version, deps, lastCheck, phase, fs, now, edits,
                 scopes, last, good, load, db, uuids>>

\* updateVersion, lines 86-88: compare, assign t.version, return
ConcAssign(r) ==
  /\ req[r].pc = "assign"
  /\ version' = req[r].nv
  /\ req' = [req EXCEPT ![r].pc =
               IF version # req[r].nv THEN "reset" ELSE AfterUpdate(req[r].op)]
  /\ UNCHANGED <<compiled, deps, lastCheck, phase, fs, now, edits, scopes, last, good, load,
                 db, uuids>>

\* Update, line 63: t.deps = make(...)
ConcReset(r) ==
  /\ req[r].pc = "reset"
  /\ deps' = ResetDeps(T)
  /\ req' = [req EXCEPT ![r].pc = "load"]
  /\ UNCHANGED <<compiled, version, lastCheck, phase, fs, now, edits, scopes, last, good, load,
                 db, uuids>>

\* Update, lines 64-68: loadTemplate, which adds to t.deps as it goes
ConcLoad(r) ==
  /\ req[r].pc = "load"
  /\ \E l \in {loadTemplate(fs, mainFile, deps)} :
        /\ deps' = l.deps
        /\ req' = [req EXCEPT ![r].loaded = l,
                              ![r].pc = IF l.failed THEN AfterUpdate(req[r].op)
                                        ELSE "store"]
        /\ good' = IF l.failed THEN [good EXCEPT !.failedSince = TRUE] ELSE good
  /\ UNCHANGED <<compiled, version, lastCheck, phase, fs, now, edits, scopes, last, load,
                 db, uuids>>

\* Update, lines 69-71: inject the libraries, assign t.compiled; the body
\* stored belongs to the version this call computed
ConcStore(r) ==
  /\ req[r].pc = "store"
  /\ compiled' = injectExternalLibs(req[r].loaded.out, libsMap)
  /\ good' = [any |-> TRUE, version |-> req[r].nv, compiled |-> compiled',
              failedSince |-> FALSE]
  /\ req' = [req EXCEPT ![r].pc = AfterUpdate(req[r].op)]
  /\ UNCHANGED <<version, deps, lastCheck, phase, fs, now, edits, scopes, last, load,
                 db, uuids>>

\* Execute, line 219: componentData["main"]["currentVersion"] = t.version
ConcReadCurrent(r) ==
  /\ req[r].pc = "current"
  /\ req' = [req EXCEPT ![r].v1 = version, ![r].pc = "avail"]
  /\ UNCHANGED <<compiled, version, deps, lastCheck, phase, fs, now, edits,
                 scopes, last, good, load, db, uuids>>

\* Execute, line 220: componentData["main"]["availVersion"] = t.version
ConcReadAvail(r) ==
  /\ req[r].pc = "avail"
  /\ req' = [req EXCEPT ![r].v2 = version, ![r].pc = "write"]
  /\ UNCHANGED <<compiled, version, deps, lastCheck, phase, fs, now, edits,
                 scopes, last, good, load, db, uuids>>

\* Execute, lines 222-246: marshal, read t.compiled, write the page; stamp
\* records the version that was computed for the body read here
ConcWrite(r, data, order) ==
  /\ req[r].pc = "write"
  /\ req' = [req EXCEPT ![r].pc = "idle", ![r].wrote = TRUE,
                        ![r].out = Render(compiled,
                                     Stamp(Regroup(data, order), req[r].v1, req[r].v2)),
                        ![r].stamp = good.version]
  /\ UNCHANGED <<compiled, version, deps, lastCheck, phase, fs, now, edits,
                 scopes, last, good, load, db, uuids>>

\* JSON, lines 467-469
ConcJSON(r, data) ==
  /\ req[r].pc = "stamp"
  /\ req' = [req EXCEPT ![r].pc = "idle", ![r].wrote = TRUE,
                        ![r].resp = StampJSON(data, version)]
  /\ UNCHANGED <<compiled, version, deps, lastCheck, phase, fs, now, edits,
                 scopes, last, good, load, db, uuids>>

NextConc ==
  \/ ConcTick
  \/ \E c \in Contents(mainFile) : ConcSave(mainFile, c)
  \/ NewJTemplate
  \/ \E r \in Requests : \E op \in {"Execute", "JSON"} : ConcBegin(r, op)
  \/ \E r \in Requests : ConcThrottle(r)
  \/ \E r \in Requests : ConcMark(r)
  \/ \E r \in Requests : ConcStat(r)
  \/ \E r \in Requests : ConcAssign(r)
  \/ \E r \in Requests : ConcReset(r)
  \/ \E r \in Requests : ConcLoad(r)
  \/ \E r \in Requests : ConcStore(r)
  \/ \E r \in Requests : ConcReadCurrent(r)
  \/ \E r \in Requests : ConcReadAvail(r)
  \/ \E r \in Requests : \E data \in ExecData : \E order \in Orders(data) :
       ConcWrite(r, data, order)
  \/ \E r \in Requests : \E data \in OwnStampData : ConcJSON(r, data)

SpecConc == Init /\ [][NextConc]_vars

\* the page r has written
PageWritten(r) == req[r].op = "Execute" /\ req[r].wrote

\* C4: every page written by Execute carries, in both version fields, the
\* version that was computed for the compiled body the page was rendered
\* from, also when another request recompiles concurrently.
C4_PageVersionBelongsToBody ==
  \A r \in Requests :
    PageWritten(r) =>
      /\ DataOf(req[r].out)["main"][<<"currentVersion">>] = Ver(req[r].stamp)
      /\ DataOf(req[r].out)["main"][<<"availVersion">>] = Ver(req[r].stamp)

\* C7: in every page written by Execute the root-namespace fields
\* currentVersion and availVersion hold the same value, for every payload
\* and also when another request runs Update during the render.
C7_CurrentEqualsAvailAtRender ==
  \A r \in Requests :
    PageWritten(r) =>
      DataOf(req[r].out)["main"][<<"currentVersion">>]
        = DataOf(req[r].out)["main"][<<"availVersion">>]

\* ======================================================================
\* Execute on arbitrary payloads (SpecPayload): handlers pass Execute any
\* map of at most MaxKeys keys, bare or namespaced, and Go visits the keys
\* of a map in any order.
\* ======================================================================
PayloadKeys == { <<"x">>, <<"main", "x">>, <<"todoApp", "x">>, <<"a", "x", "y">> }
PayloadVals == { Val(1), Val(2) }

Payloads ==
  UNION { [K -> PayloadVals] :
            K \in { S \in SUBSET PayloadKeys : S # {} /\ Cardinality(S) <= MaxKeys } }

NextPayload ==
  \/ Tick
  \/ NewJTemplate
  \/ \E data \in Payloads : \E order \in Orders(data) :
       Execute("", data, order) /\ UNCHANGED scopes

SpecPayload == Init /\ [][NextPayload]_vars

\* the namespace and the field an input key is meant for: "a::b" is field
\* b of a, a bare key is a field of the default namespace
SlotOf(k) ==
  IF Len(k) > 1 THEN [comp |-> k[1], field |-> Tail(k)]
  ELSE [comp |-> "main", field |-> k]

\* C11: the regrouping done by Execute is lossless and order-independent:
\* every input key's value is in the page data under its namespace and
\* field, two distinct keys never share a slot, and any other visiting
\* order gives the same page data.
C11_RegroupLosslessAnyOrder ==
  (last.op = "Execute" /\ last.wrote)
    => LET pd == DataOf(last.out) IN
       /\ \A k \in DOMAIN last.data :
            /\ SlotOf(k).comp \in DOMAIN pd
            /\ SlotOf(k).field \in DOMAIN pd[SlotOf(k).comp]
            /\ pd[SlotOf(k).comp][SlotOf(k).field] = last.data[k]
       /\ \A k1, k2 \in DOMAIN last.data : k1 # k2 => SlotOf(k1) # SlotOf(k2)
       /\ \A order \in Orders(last.data) :
            pd = Stamp(Regroup(last.data, order), version, version)

\* ======================================================================
\* Claims about the compiled document (Spec)
\* ======================================================================

\* the script blocks of a document
ScriptsOf(doc) == { i \in 1..Len(doc) : doc[i].k = "script" }

\* the file in which the script block with this body is written (every
\* block of the template files has a body of its own)
WrittenIn(files, body) ==
  CHOOSE p \in Paths :
    \E i \in ScriptsOf(files[p].content) : files[p].content[i].body = body

\* C12: every script block of the compiled document, with or without
\* attributes, from the root or from an include at any depth, has right
\* after its opening tag a sourceURL annotation naming the file the block
\* is written in.
C12_ScriptsNameTheirSourceFile ==
  [][(ServerStep /\ last'.res = "compiled")
     => \A i \in ScriptsOf(compiled') :
          /\ compiled'[i].urls # <<>>
          /\ compiled'[i].urls[1] = Base(WrittenIn(fs, compiled'[i].body))]_vars

\* the block as it is written in its file
Written(files, body) ==
  LET p == WrittenIn(files, body)
      i == CHOOSE j \in ScriptsOf(files[p].content) : files[p].content[j].body = body
  IN files[p].content[i]

\* C13: a script block declaring x-data="NAME", in the root or in an
\* include, is in the compiled document as a plain script whose body is
\* wrapped exactly once in the Alpine.data('NAME') form; a block without
\* x-data keeps its tag and its body is not wrapped.
C13_XDataScriptsWrappedOnce ==
  [][(ServerStep /\ last'.res = "compiled")
     => /\ \A i \in ScriptsOf(compiled') :
             LET w == Written(fs, compiled'[i].body) IN
             /\ compiled'[i].xdata = ""
             /\ compiled'[i].wrap = IF w.xdata # "" THEN <<w.xdata>> ELSE <<>>
             /\ w.xdata = "" => compiled'[i].attrs = w.attrs
        /\ \A p \in deps' : \A k \in ScriptsOf(fs[p].content) :
             \E i \in ScriptsOf(compiled') : compiled'[i].body = fs[p].content[k].body]_vars

\* a recompilation whose document holds the wrapped block of the root,
\* the wrapped block of sub/b.html (x-data after other attributes) and the
\* plain block of a.html
C13_Witness ==
  /\ last.res = "compiled" /\ last.op # "NewJTemplate"
  /\ \E i, j, n \in ScriptsOf(compiled) :
       /\ compiled[i].wrap = <<"main">> /\ compiled[i].body = 1
       /\ compiled[j].wrap = <<"todoApp">> /\ compiled[j].body = 3
       /\ compiled[n].wrap = <<>> /\ compiled[n].body = 2

\* ======================================================================
\* loadTemplate call by call (SpecLoad): the recursion of loadTemplate and
\* processIncludes as a stack of invocations, over template files whose
\* directives may lead back to a file that is being loaded.  A frame is an
\* invocation of loadTemplate: its path, whether it has read its file, the
\* position of processIncludes in the content and the builder.  A call in
\* progress keeps running (weak fairness); the stack is cut at MaxDepth.
\* ======================================================================
refRoot == P(<<"index">>, "")
refSelfB == P(<<"b">>, "")

LoadContents(p) ==
  CASE p = mainFile ->
         { <<Inc(refA), Script(FALSE, "main", 1)>>,
           <<Inc(refB), Text(1)>>,
           <<Inc(refGhost), Inc(refA)>> }
    [] p = fileA -> { <<Script(FALSE, "", 2)>>, <<Inc(refA)>>, <<Text(2), Inc(refRoot)>> }
    [] p = fileB -> { <<Inc(refC), Script(TRUE, "todoApp", 3)>>, <<Inc(refUpA)>>,
                      <<Inc(refSelfB)>> }
    [] OTHER -> { <<Script(TRUE, "", 4)>>, <<Inc(refSelfB)>> }

InitLoad ==
  /\ compiled = <<>>
  /\ version = EmptyVersion
  /\ deps = {}
  /\ lastCheck = ZeroTime
  /\ phase = "new"
  /\ \E cs \in [Paths -> UNION {LoadContents(p) : p \in Paths}] :
        /\ \A p \in Paths : cs[p] \in LoadContents(p)
        /\ fs = [p \in Paths |-> [exists |-> TRUE, readable |-> TRUE,
                                  mtime |-> StartTime, content |-> cs[p]]]
  /\ now = StartTime
  /\ edits = 0
  /\ scopes = [c \in Clients |-> NoPage]
  /\ last = NoCall
  /\ good = [any |-> FALSE, version |-> EmptyVersion, compiled |-> <<>>,
             failedSince |-> FALSE]
  /\ req = [r \in Requests |-> Idle]
  /\ load = NoLoad
  /\ db = NoTodos
  /\ uuids = 0

Frame(path) == [path |-> path, read |-> FALSE, i |-> 1, acc |-> <<>>]
Top == load.stack[Len(load.stack)]
Running == load.stack # <<>> /\ load.res = "none"
\* the token processIncludes is at in the top frame
AtEnd == Top.i > Len(fs[Top.path].content)
Cur == fs[Top.path].content[Top.i]

\* Update, line 64: t.loadTemplate(t.mainFile)
LoadStart ==
  /\ load = NoLoad
  /\ load' = [load EXCEPT !.stack = <<Frame(mainFile)>>]
  /\ UNCHANGED <<compiled, version, deps, lastCheck, phase, fs, now, edits,
                 scopes, last, good, req, db, uuids>>

\* loadTemplate, lines 94-100: record the dependency, read the file; an
\* error is handed up through every caller (lines 98, 104, 139-141)
LoadRead ==
  /\ Running /\ ~Top.read
  /\ deps' = deps \cup {Top.path}
  /\ load' = IF ReadOk(fs, Top.path)
             THEN [load EXCEPT !.stack[Len(load.stack)].read = TRUE]
             ELSE [load EXCEPT !.stack = <<>>, !.res = "error"]
  /\ UNCHANGED <<compiled, version, lastCheck, phase, fs, now, edits,
                 scopes, last, good, req, db, uuids>>

\* processIncludes, lines 135 and 149: text that is no directive is copied
LoadText ==
  /\ Running /\ Top.read /\ ~AtEnd /\ Cur.k # "inc"
  /\ load' = [load EXCEPT !.stack[Len(load.stack)] =
                [Top EXCEPT !.i = @ + 1, !.acc = Append(@, Cur)]]
  /\ UNCHANGED <<compiled, version, deps, lastCheck, phase, fs, now, edits,
                 scopes, last, good, req, db, uuids>>

\* processIncludes, lines 130-138: a directive calls loadTemplate
LoadInclude ==
  /\ Running /\ Top.read /\ ~AtEnd /\ Cur.k = "inc"
  /\ Len(load.stack) < MaxDepth
  /\ load' = [load EXCEPT !.stack =
                Append(@, Frame(Join(Dir(Top.path), WithExt(Cur.ref))))]
  /\ UNCHANGED <<compiled, version, deps, lastCheck, phase, fs, now, edits,
                 scopes, last, good, req, db, uuids>>

\* loadTemplate, lines 106-110, and the caller's lines 143-146: the file is
\* resolved; its text goes, between the markers, into the caller's builder
LoadReturn ==
  /\ Running /\ Top.read /\ AtEnd
  /\ \E out \in {addSourceURL(processXDataScripts(Top.acc), Base(Top.path))} :
       load' =
         IF Len(load.stack) = 1
         THEN [stack |-> <<>>, res |-> "ok", out |-> out]
         ELSE LET c == load.stack[Len(load.stack) - 1]
                  fileName == WithExt(fs[c.path].content[c.i].ref)
              IN [load EXCEPT !.stack =
                    Append(SubSeq(load.stack, 1, Len(load.stack) - 2),
                           [c EXCEPT !.i = @ + 1,
                                     !.acc = @ \o <<Begin(fileName)>> \o out
                                               \o <<End(fileName)>>])]
  /\ UNCHANGED <<compiled, version, deps, lastCheck, phase, fs, now, edits,
                 scopes, last, good, req, db, uuids>>

NextLoad ==
  \/ LoadStart
  \/ LoadRead
  \/ LoadText
  \/ LoadInclude
  \/ LoadReturn

SpecLoad == InitLoad /\ [][NextLoad]_vars /\ WF_vars(NextLoad)

\* the include graph of the root has a cycle: some file reachable from the
\* root is reachable from its own directives
Cyclic(files) ==
  \E p \in Closure(files, {mainFile}) : p \in Closure(files, Includes(files, p))

\* what following the directives in document order meets first: a file
\* that is being loaded already ("cycle"), a file that cannot be read
\* ("error"), or the end of the root ("ok")
RECURSIVE Walk(_, _, _)
RECURSIVE WalkFrom(_, _, _, _)
Walk(files, p, onstack) ==
  IF p \in onstack THEN "cycle"
  ELSE IF ~ReadOk(files, p) THEN "error"
  ELSE WalkFrom(files, p, 1, onstack \cup {p})

WalkFrom(files, p, i, onstack) ==
  IF i > Len(files[p].content) THEN "ok"
  ELSE IF files[p].content[i].k # "inc" THEN WalkFrom(files, p, i + 1, onstack)
  ELSE LET r == Walk(files, Target(p, files[p].content[i].ref), onstack)
       IN IF r = "ok" THEN WalkFrom(files, p, i + 1, onstack) ELSE r

\* C14 as stated: loadTemplate returns for every root whose include graph
\* is acyclic, and never returns, with a result or with an error, for a
\* root whose include graph has a cycle.
C14_ReturnsIffAcyclic ==
  /\ (~Cyclic(fs)) ~> (load.res # "none")
  /\ [](Cyclic(fs) => load.res = "none")

\* C14 amended: loadTemplate returns for every root whose include graph is
\* acyclic; when there is a cycle it recurses beyond every depth and never
\* returns, unless a file that cannot be read comes, in document order,
\* before the first directive that closes a cycle: then the error of that
\* read is returned.
C14_ReturnsUnlessCycleIsEntered ==
  /\ (~Cyclic(fs) \/ Walk(fs, mainFile, {}) # "cycle") ~> (load.res # "none")
  /\ [](load.res # "none" => load.res = Walk(fs, mainFile, {}))
  /\ (Walk(fs, mainFile, {}) = "cycle") ~> (Len(load.stack) = MaxDepth)

\* the recursion through sub/b.html and sub/c.html, which include each
\* other, has reached the cut
C14_Witness ==
  /\ Len(load.stack) = MaxDepth /\ load.res = "none"
  /\ Top.path \in {fileB, fileC}
  /\ load.stack[Len(load.stack) - 1].path \in {fileB, fileC} \ {Top.path}

\* ======================================================================
\* injectExternalLibs on any library map (SpecLibs): a map of at most
\* MaxLibs of these libraries, its keys collected in any order, injected
\* into a document with </head>, with </body> only, or with neither.
\* ======================================================================
LibUniverse ==
  { Lib("alpine.map", 10, 1, "map"), Lib("alpinejs", 8, 2, "js"),
    Lib("alpinejs-autoanimate", 20, 3, "js"), Lib("daisyui-css", 11, 4, "css"),
    Lib("tailwindcss", 11, 5, "js") }

LibDocs ==
  { <<HeadClose, Text(1), BodyClose>>, <<Text(1), BodyClose>>, <<Text(1)>> }

InjectCall(html, libs, keys) ==
  [op |-> "injectExternalLibs", html |-> html, libs |-> libs, keys |-> keys,
   out |-> injectLibsInOrder(html, keys)]

Inject(html, libs, keys) ==
  /\ last' = InjectCall(html, libs, keys)
  /\ UNCHANGED <<compiled, version, deps, lastCheck, phase, fs, now, edits,
                 scopes, good, req, load, db, uuids>>

NextLibs ==
  \E libs \in { S \in SUBSET LibUniverse : Cardinality(S) <= MaxLibs } :
    \E keys \in RangeOrders(libs) : \E html \in LibDocs : Inject(html, libs, keys)

SpecLibs == Init /\ [][NextLibs]_vars

\* the tags injectExternalLibs put into the document
TagsOf(out) == out[IndexOf(out, "libs")].tags
LibNamed(libs, name) == CHOOSE l \in libs : l.name = name

\* C15: the tags come in an order fixed by the library names alone (longer
\* name first, equal lengths alphabetically), the same for every order in
\* which the map's keys are visited; a .css asset gives a link tag, a .js
\* asset a script tag with defer unless the library is tailwindcss.
C15_LibTagsOrderedByName ==
  last.op = "injectExternalLibs"
    => LET tags == TagsOf(last.out)
           assets == { l \in last.libs : l.ext \in {"css", "js"} }
       IN /\ Len(tags) = Cardinality(assets)
          /\ { tags[i].name : i \in 1..Len(tags) } = { l.name : l \in assets }
          /\ \A i, j \in 1..Len(tags) :
               i < j => LET a == LibNamed(last.libs, tags[i].name)
                            b == LibNamed(last.libs, tags[j].name)
                        IN a.len > b.len \/ (a.len = b.len /\ a.alpha < b.alpha)
          /\ \A i \in 1..Len(tags) :
               LET l == LibNamed(last.libs, tags[i].name) IN
               /\ tags[i].tag = (IF l.ext = "css" THEN "link" ELSE "script")
               /\ tags[i].defer = (l.ext = "js" /\ l.name # "tailwindcss")
          /\ \A keys \in RangeOrders(last.libs) :
               injectLibsInOrder(last.html, keys) = last.out

\* a map with two names of equal length, a stylesheet and tailwindcss,
\* visited with tailwindcss first
C15_Witness ==
  /\ last.op = "injectExternalLibs"
  /\ Cardinality(last.libs) = 3
  /\ last.keys[1].name = "tailwindcss"
  /\ \E l \in last.libs : l.name = "daisyui-css"
  /\ TagsOf(last.out)[Len(TagsOf(last.out))].name = "tailwindcss"

\* ======================================================================
\* Breaking and repairing the root file (SpecRepair): index.html is saved
\* up to MaxRepairEdits times, with or without a directive that names a
\* file that does not exist; Update and Execute are called in between.
\* ======================================================================
RepairSave(c) ==
  /\ edits < MaxRepairEdits
  /\ edits' = edits + 1
  /\ fs' = [fs EXCEPT ![mainFile].mtime = now, ![mainFile].content = c]
  /\ UNCHANGED <<compiled, version, deps, lastCheck, phase, now, scopes, last,
                 good, req, load, db, uuids>>

NextRepair ==
  \/ Tick
  \/ \E c \in Contents(mainFile) : RepairSave(c)
  \/ NewJTemplate
  \/ DoUpdate
  \/ \E data \in IndexData : \E order \in Orders(data) :
       Execute("", data, order) /\ UNCHANGED scopes

SpecRepair == Init /\ [][NextRepair]_vars

\* C16: after a failed recompilation, once the files have been edited so
\* that the root compiles again, the first due freshness check recompiles
\* successfully and stores the document compiled from the repaired files,
\* also when the repair removed the directive naming a missing file.
C16_RepairIsPickedUp ==
  [][(/\ ServerStep
      /\ phase = "ready"
      /\ good.any /\ good.failedSince
      /\ ~loadTemplate(fs, mainFile, {}).failed
      /\ now - lastCheck >= CheckTicks)
     => (/\ last'.res = "compiled"
         /\ compiled' = CompiledNow(fs)
         /\ ~good'.failedSince)]_vars

\* ======================================================================
\* Construction and the checks after it (SpecBoot): files are saved before
\* NewJTemplate runs and not afterwards.
\* ======================================================================
BootSave(p, c) == phase = "new" /\ WriteFile(p, c)

NextBoot ==
  \/ Tick
  \/ \E p \in Paths : \E c \in Contents(p) : BootSave(p, c)
  \/ NewJTemplate
  \/ DoUpdate
  \/ \E data \in IndexData : \E order \in Orders(data) :
       Execute("", data, order) /\ UNCHANGED scopes

SpecBoot == Init /\ [][NextBoot]_vars

\* C17: when NewJTemplate returns without error the version is the
\* formatted newest modification time among the root and the files it
\* includes, directly or not; with no file changed since, a call, due or
\* not, recompiles nothing and leaves version, body and dependency set
\* as they are.
C17_ConstructorBootstrapsVersion ==
  [][/\ (ServerStep /\ last'.op = "NewJTemplate" /\ last'.res = "compiled")
          => version' = Format(Max({fs[p].mtime : p \in Closure(fs, {mainFile})}))
     /\ (ServerStep /\ phase = "ready" /\ good.any)
          => (/\ UNCHANGED <<version, compiled, deps>>
              /\ last'.res \in {"throttled", "fresh"})]_vars

\* a due check after a construction in which sub/c.html, included through
\* sub/b.html, was the newest file
C17_Witness ==
  /\ last.op = "Update" /\ last.res = "fresh"
  /\ fileC \in deps
  /\ \A p \in deps \ {fileC} : fs[p].mtime < fs[fileC].mtime
  /\ version = Format(fs[fileC].mtime)
  /\ version # Format(fs[mainFile].mtime)

\* ======================================================================
\* Batches of changes (SpecBatch): index.html is saved with or without
\* the directive that includes a.html, and a.html is saved, up to
\* MaxBatchEdits saves in all; every saved root compiles.
\* ======================================================================
BatchSave(p, c) ==
  /\ edits < MaxBatchEdits
  /\ ~loadTemplate([fs EXCEPT ![p].content = c], mainFile, {}).failed
  /\ edits' = edits + 1
  /\ fs' = [fs EXCEPT ![p].mtime = now, ![p].content = c]
  /\ UNCHANGED <<compiled, version, deps, lastCheck, phase, now, scopes, last,
                 good, req, load, db, uuids>>

NextBatch ==
  \/ Tick
  \/ \E p \in {mainFile, fileA} : \E c \in Contents(p) : BatchSave(p, c)
  \/ NewJTemplate
  \/ DoUpdate

SpecBatch == Init /\ [][NextBatch]_vars

\* C18: after a successful recompilation by Update the version equals the
\* formatted newest modification time of the rebuilt dependency set, also
\* when the recompilation added or removed include files (so that the
\* checks that follow, with no further change, recompile nothing and leave
\* the version alone).
C18_VersionMatchesRebuiltDeps ==
  [][/\ (ServerStep /\ last'.op = "Update" /\ last'.res = "compiled")
          => version' = Format(Max({fs[p].mtime : p \in deps'}))
     /\ (ServerStep /\ last.op = "Update" /\ last.res \in {"compiled", "fresh"}
           /\ last'.op = "Update" /\ last'.res # "throttled"
           /\ \A p \in Paths : fs[p].mtime <= lastCheck)
          => (last'.res = "fresh" /\ version' = version)]_vars

\* ======================================================================
\* Claims about the value Update returns (Spec)
\* ======================================================================

\* Update returns a non-nil error exactly on line 67, when loadTemplate
\* failed; the throttled return (line 54), the return after an unchanged
\* version (line 60) and the return after storing the body (line 71) are nil
ReturnsError(res) == res = "failed"

\* C19: after a recompilation has failed and until one succeeds, every
\* Update call, throttled or due, returns an error.
C19_UpdateKeepsReportingFailure ==
  [][(/\ ServerStep
      /\ good.any /\ good.failedSince /\ good'.failedSince
      /\ last'.op = "Update")
     => ReturnsError(last'.res)]_vars

\* ======================================================================
\* Claims about the throttle under concurrent requests (SpecConc)
\* ======================================================================

\* r has passed the throttle test of line 53 and has not left Update
InCheck(r) == req[r].pc \in {"mark", "stat", "assign", "reset", "load", "store"}

\* C20: two requests are never inside the check-and-recompile section of
\* Update at the same time.
C20_OneRequestChecksAtATime ==
  \A r1, r2 \in Requests : (InCheck(r1) /\ InCheck(r2)) => r1 = r2

\* ======================================================================
\* The todo handlers of main.go (SpecTodos)
\*
\* net/http serves every request on a goroutine of its own, so the handlers
\* interleave.  A db.View or db.Update call is one transaction and one
\* step; what a handler does between two transactions touches its locals
\* only and is part of the step before.  data.db outlives the process, so
\* the server starts with the store it was left with.  getAllTodos and
\* saveTodo fail only on a closed database, and the database is closed
\* when main returns (line 45): those branches are never taken.
\* ======================================================================

\* the stores the server starts with: room for InitRoom todos or fewer
InitStores ==
  { [id \in 1..n |-> Todo(FALSE)] : n \in (MaxTodos - InitRoom)..MaxTodos }

InitTodos ==
  /\ compiled = <<>>
  /\ version = EmptyVersion
  /\ deps = {}
  /\ lastCheck = ZeroTime
  /\ phase = "new"
  /\ fs = [p \in Paths |-> [exists |-> TRUE, readable |-> TRUE,
                            mtime |-> StartTime, content |-> InitContent(p)]]
  /\ now = StartTime
  /\ edits = 0
  /\ scopes = [c \in Clients |-> NoPage]
  /\ last = NoCall
  /\ good = [any |-> FALSE, version |-> EmptyVersion, compiled |-> <<>>,
             failedSince |-> FALSE]
  /\ req = [r \in Requests |-> Idle]
  /\ load = NoLoad
  /\ db \in InitStores
  /\ uuids = 0

\* the IDs the clients send: one that was never stored, the first todo of
\* the store and the first one created since the start
RequestIDs == {0, 1, MaxTodos + 1}

\* uuid.New(), line 141: an ID no todo has had
uuidNew == MaxTodos + uuids + 1

\* getAllTodos, lines 296-315: every "todo:" entry, in one read transaction
getAllTodos == db

\* len(todos)
len(todos) == Cardinality(DOMAIN todos)

\* tx.Delete of the given keys; a missing key is ErrNotFound, which lines
\* 227 and 258 let pass
DeleteKeys(store, ids) == [id \in DOMAIN store \ ids |-> store[id]]

\* the payloads of lines 159-163 and of lines 209-211, 239-241, 278-280
TodosData(op, todos) ==
  IF op = "create"
  THEN (<<"todoApp", "todos">> :> Val(todos)) @@ (<<"todoApp", "newTodo">> :> Val(""))
       @@ (errorKey :> Val(""))
  ELSE <<"todoApp", "todos">> :> Val(todos)

\* template.Error(w, errMsg) and return
RespondError(r, errMsg) ==
  /\ \E o \in {Update(T, fs, now)} :
        /\ SetT(o.t)
        /\ good' = GoodAfter(o)
        /\ last' = IF o.res = "panic"
                   THEN Call("Error", r, o, errorKey :> Val(errMsg), FALSE, <<>>, EmptyMap)
                   ELSE Call("Error", r, o, errorKey :> Val(errMsg), TRUE, <<>>,
                             ErrorBody(errMsg, o.t.version))
  /\ req' = [req EXCEPT ![r] = Idle]

\* template.JSON(w, data) and return
RespondJSON(r, data) ==
  /\ \E o \in {Update(T, fs, now)} :
        /\ SetT(o.t)
        /\ good' = GoodAfter(o)
        /\ last' = IF o.res = "panic"
                   THEN Call("JSON", r, o, data, FALSE, <<>>, EmptyMap)
                   ELSE Call("JSON", r, o, data, TRUE, <<>>,
                             StampJSON(data, o.t.version))
  /\ req' = [req EXCEPT ![r] = Idle]

\* the first transaction of each handler
FirstStep(op) ==
  CASE op = "create" -> "count"
    [] op = "toggle" -> "toggle"
    [] op = "delete" -> "delete"
    [] op = "clear"  -> "read"

\* creates that will still call uuid.New()
Counting == {r \in Requests : req[r].pc = "count"}

\* DecodeAndValidate, lines 474-485, on a body that does not decode or
\* does not validate: handleCreateTodo, handleToggleTodo and
\* handleDeleteTodo return at lines 123-125, 169-171, 217-219
DecodeFails(r) ==
  /\ phase = "ready"
  /\ req[r].pc = "idle"
  /\ RespondError(r, "Invalid request")
  /\ UNCHANGED <<phase, fs, now, edits, scopes, load, db, uuids>>

\* a handler is entered with a valid body (handleClearCompleted reads none)
HandlerBegin(r, op, id) ==
  /\ phase = "ready"
  /\ req[r].pc = "idle"
  /\ op = "create" => uuids + Cardinality(Counting) < MaxCreates
  /\ req' = [req EXCEPT ![r] = [Idle EXCEPT !.pc = FirstStep(op), !.op = op, !.id = id]]
  /\ UNCHANGED <<compiled, version, deps, lastCheck, phase, fs, now, edits,
                 scopes, last, good, load, db, uuids>>

\* handleCreateTodo, lines 128-137: the count is over the limit
CreateRefused(r) ==
  /\ req[r].pc = "count"
  /\ len(getAllTodos) >= MaxTodos
  /\ RespondError(r, "Maximum number of todos reached")
  /\ UNCHANGED <<phase, fs, now, edits, scopes, load, db, uuids>>

\* handleCreateTodo, lines 128-145: the count is under the limit and the
\* new todo is built
CreateCounted(r) ==
  /\ req[r].pc = "count"
  /\ len(getAllTodos) < MaxTodos
  /\ req' = [req EXCEPT ![r].pc = "save", ![r].todos = getAllTodos, ![r].id = uuidNew]
  /\ uuids' = uuids + 1
  /\ UNCHANGED <<compiled, version, deps, lastCheck, phase, fs, now, edits,
                 scopes, last, good, load, db>>

\* handleCreateTodo, line 147, and saveTodo, lines 284-293
saveTodo(r) ==
  /\ req[r].pc = "save"
  /\ db' = (req[r].id :> Todo(FALSE)) @@ db
  /\ req' = [req EXCEPT ![r].pc = "list"]
  /\ UNCHANGED <<compiled, version, deps, lastCheck, phase, fs, now, edits,
                 scopes, last, good, load, uuids>>

\* handleToggleTodo, lines 174-200: tx.Get fails on a missing key
ToggleMissing(r) ==
  /\ req[r].pc = "toggle"
  /\ req[r].id \notin DOMAIN db
  /\ RespondError(r, "Failed to toggle todo")
  /\ UNCHANGED <<phase, fs, now, edits, scopes, load, db, uuids>>

\* handleToggleTodo, lines 174-195
ToggleTodo(r) ==
  /\ req[r].pc = "toggle"
  /\ req[r].id \in DOMAIN db
  /\ db' = [db EXCEPT ![req[r].id] = Todo(~@.Completed)]
  /\ req' = [req EXCEPT ![r].pc = "list"]
  /\ UNCHANGED <<compiled, version, deps, lastCheck, phase, fs, now, edits,
                 scopes, last, good, load, uuids>>

\* handleDeleteTodo, lines 222-230
DeleteTodo(r) ==
  /\ req[r].pc = "delete"
  /\ db' = DeleteKeys(db, {req[r].id})
  /\ req' = [req EXCEPT ![r].pc = "list"]
  /\ UNCHANGED <<compiled, version, deps, lastCheck, phase, fs, now, edits,
                 scopes, last, good, load, uuids>>

\* handleClearCompleted, line 247
ClearRead(r) ==
  /\ req[r].pc = "read"
  /\ req' = [req EXCEPT ![r].pc = "clear", ![r].todos = getAllTodos]
  /\ UNCHANGED <<compiled, version, deps, lastCheck, phase, fs, now, edits,
                 scopes, last, good, load, db, uuids>>

\* handleClearCompleted, lines 254-264: the todos that were completed when
\* line 247 read them
ClearCompleted(r) ==
  /\ req[r].pc = "clear"
  /\ db' = DeleteKeys(db, {id \in DOMAIN req[r].todos : req[r].todos[id].Completed})
  /\ req' = [req EXCEPT ![r].pc = "list"]
  /\ UNCHANGED <<compiled, version, deps, lastCheck, phase, fs, now, edits,
                 scopes, last, good, load, uuids>>

\* the end of the four handlers, lines 153-163, 203-211, 233-241, 272-280
ListTodos(r) ==
  /\ req[r].pc = "list"
  /\ RespondJSON(r, TodosData(req[r].op, getAllTodos))
  /\ UNCHANGED <<phase, fs, now, edits, scopes, load, db, uuids>>

NextTodos ==
  \/ NewJTemplate
  \/ \E r \in Requests : DecodeFails(r)
  \/ \E r \in Requests : HandlerBegin(r, "create", 0)
  \/ \E r \in Requests, id \in RequestIDs : HandlerBegin(r, "toggle", id)
  \/ \E r \in Requests, id \in RequestIDs : HandlerBegin(r, "delete", id)
  \/ \E r \in Requests : HandlerBegin(r, "clear", 0)
  \/ \E r \in Requests : CreateRefused(r)
  \/ \E r \in Requests : CreateCounted(r)
  \/ \E r \in Requests : saveTodo(r)
  \/ \E r \in Requests : ToggleMissing(r)
  \/ \E r \in Requests : ToggleTodo(r)
  \/ \E r \in Requests : DeleteTodo(r)
  \/ \E r \in Requests : ClearRead(r)
  \/ \E r \in Requests : ClearCompleted(r)
  \/ \E r \in Requests : ListTodos(r)

SpecTodos == InitTodos /\ [][NextTodos]_vars

\* C21: the store never holds more than MaxTodos todos, whatever create,
\* toggle, delete and clear-completed requests are served and however they
\* interleave.
C21_StoreNeverExceedsMaxTodos == len(db) <= MaxTodos

\* the second half of C21: a create request that finds MaxTodos todos or
\* more in the store is answered with an error and stores nothing
C21_FullStoreRefusesCreate ==
  [][\A r \in Requests :
       (req[r].pc = "count" /\ req'[r].pc # "count" /\ len(db) >= MaxTodos)
       => (/\ last'.op = "Error" /\ last'.c = r /\ last'.wrote
           /\ req'[r].pc = "idle"
           /\ db' = db)]_vars

\* ======================================================================
\* Payload keys on their two ways to the page (SpecKeys): the same
\* payloads are rendered into the page by Execute and merged by the
\* alpine:initialized listener, and sent as JSON and merged by makeRequest
\* ======================================================================
RoutedKeys == { <<"x">>, <<"main", "x">>, <<"todoApp", "x">>, <<"todoApp", "x", "y">> }

RoutedPayloads ==
  UNION { [K -> PayloadVals] :
            K \in { S \in SUBSET RoutedKeys : S # {} /\ Cardinality(S) <= MaxKeys } }

NextKeys ==
  \/ NewJTemplate
  \/ \E c \in Clients : \E data \in RoutedPayloads : \E order \in Orders(data) :
       ClientLoad(c, data, order)
  \/ \E c \in Clients : \E data \in RoutedPayloads : ClientRequest(c, data)

SpecKeys == Init /\ [][NextKeys]_vars

\* a step in which c's page receives a payload, in the page or as JSON
Delivered(c) == last'.c = c /\ last'.wrote /\ last'.op \in {"Execute", "JSON"}

\* k is the only key of the payload meant for its slot, and the slot is a
\* field of a component of the page
Addresses(data, k) ==
  /\ SlotOf(k).comp \in PageComps
  /\ \A k2 \in DOMAIN data : SlotOf(k2) = SlotOf(k) => k2 = k

\* the scopes hold v in the slot k is meant for
Lands(sc, k, v) ==
  /\ SlotOf(k).field \in DOMAIN sc[SlotOf(k).comp]
  /\ sc[SlotOf(k).comp][SlotOf(k).field] = v

\* C22: delivered in the page render or in a JSON response, a key "c::f"
\* sets field f of component c, f being everything after the first "::",
\* and a key without "::" sets the field of the root component main.
C22_KeyAddressesSameField ==
  [][\A c \in Clients :
       Delivered(c)
       => \A k \in DOMAIN last'.data :
            Addresses(last'.data, k) => Lands(scopes'[c].sc, k, last'.data[k])]_vars

\* C22 for the keys that contain "::" alone
C22_NamespacedKeyAddressesSameField ==
  [][\A c \in Clients :
       Delivered(c)
       => \A k \in DOMAIN last'.data :
            (Len(k) > 1 /\ Addresses(last'.data, k))
            => Lands(scopes'[c].sc, k, last'.data[k])]_vars

\* C22 for the page render alone
C22_RenderedKeyAddressesField ==
  [][\A c \in Clients :
       (Delivered(c) /\ last'.op = "Execute")
       => \A k \in DOMAIN last'.data :
            Addresses(last'.data, k) => Lands(scopes'[c].sc, k, last'.data[k])]_vars

====
